---- MODULE Spec2Model ----
(***************************************************************************)
(* Model of src/bot.py: the per-user rate limiter (check_rate_limit), the  *)
(* text handler (generate_image), the photo handler (handle_photo), the    *)
(* transformation flow (transform_image), /clear (clear_command) and the   *)
(* application error handler (error_handler).                              *)
(*                                                                         *)
(* Every handler invocation is a task.  A task runs atomically from one    *)
(* await to the next (asyncio runs one task at a time and switches only at *)
(* an await); the calls to client.images.generate and the file operations  *)
(* are synchronous and are therefore inside an atomic step.  Time is       *)
(* counted in ticks of 1/TicksPerSec second so that the truncation of      *)
(* int(REQUEST_COOLDOWN - time_elapsed) is visible.  The variable clock is  *)
(* the latest reading of datetime.now(); a step that reads the clock is    *)
(* given a reading now >= clock, so the clock never runs backwards.        *)
(***************************************************************************)
EXTENDS Integers, Sequences, FiniteSets, TLC

\* ---------------------------------------------------------------- bounds
NUsers == 2
NTasks == 2
MaxEvents == 3
MaxSeconds == 11
TicksPerSec == 2
MaxFaults == 1

\* ------------------------------------------------------ program constants
REQUEST_COOLDOWN == 10
max_retries_two == 1 + 1
max_retries == 3
RETRY_DELAY == 2
max_size == 1024

Users == 1..NUsers
TaskIds == 1..NTasks
MaxClock == MaxSeconds * TicksPerSec
Prompts == {"p1"}
Captions == {"c1"}
None == "None"
NoEntry == -1
NoPath == -1
NoFile == <<>>
Unlimited == 0 - 1
NoPicture == <<>>

\* Outcomes of one call of client.images.generate.
ApiOutcomes == {"ok", "conn", "rate", "policy", "generic", "other"}

VARIABLES
    clock,              \* the latest reading of datetime.now(), in ticks
    user_last_request,  \* user id -> tick of the last accepted request, or NoEntry
    user_data,          \* context.user_data of every user
    tasks,              \* the handler invocations
    disk,               \* the "_prepared.png" files that exist
    events,             \* number of updates dispatched so far
    joined,             \* number of users that have sent an update
    requests,           \* history: the calls of check_rate_limit and their results
    budget,             \* failures the environment may still cause, or Unlimited
    mode,               \* how the application dispatches updates
    picture             \* an image given to prepare_image_for_api, and the result

vars == <<clock, user_last_request, user_data, tasks, disk, events, joined,
          requests, budget, mode, picture>>

\* ------------------------------------------------------------- user_data
EmptyUserData ==
    [uploaded_image_path |-> NoPath,
     images_generated    |-> 0,
     images_transformed  |-> 0,
     images_uploaded     |-> 0,
     last_prompt         |-> None]

HasUpload(u) == user_data[u].uploaded_image_path # NoPath

\* ------------------------------------------------------------------ tasks
\* Calls of client.images.generate a request has made.
calls(r) == Len(r.api)

IdleTask ==
    [pc       |-> "idle",
     handler  |-> None,     \* "text", "photo" or "clear"
     flow     |-> None,     \* "generate" or "transform" once a request is routed
     user     |-> 0,
     prompt   |-> None,     \* message text
     caption  |-> None,     \* caption of a photo
     filepath |-> NoPath,     \* handle_photo's filepath
     image    |-> NoPath,     \* pending upload when the transformation was requested
     prepared |-> NoFile,     \* transform_image's prepared_image_path
     attempt  |-> 0,        \* the loop variable of the retry loop
     api      |-> <<>>,     \* outcomes of the request's calls of client.images.generate
     api_prompt |-> None,   \* instruction given to the last of those calls
     delays   |-> 0,        \* asyncio.sleep(2) taken by the request
     wake     |-> 0,        \* earliest end of the running asyncio.sleep(2)
     err      |-> None,     \* class of the exception being handled
     req      |-> 0,        \* position in requests of the handler's check_rate_limit
     wait_time|-> -1,       \* wait_time as check_rate_limit returned it
     before   |-> EmptyUserData,  \* context.user_data when the handler was entered
     sent     |-> FALSE,    \* reply_photo delivered the image
     saved    |-> FALSE,    \* save_generated_image returned a path
     shown    |-> None,     \* the last message presented to the user
     raised   |-> FALSE]    \* an exception left the handler

Active(t) == tasks[t].pc \notin {"idle", "done"}
Free(t) == ~Active(t)

\* The slot a new update takes: the lowest free one.
NextSlot(t) == Free(t) /\ \A s \in TaskIds : s < t => Active(s)

\* Application.builder() in main() does not enable concurrent updates, so the
\* dispatcher awaits each handler before it takes the next update ("seq").
\* "all": handlers run as concurrent tasks and interleave at their awaits.
CanDispatch ==
    mode = "seq" => \A t \in TaskIds : Free(t)

\* An update of user u is dispatched to a handler that runs as task t.  Users
\* are numbered in the order of their first update.
Dispatch(t, u) ==
    /\ NextSlot(t)
    /\ CanDispatch
    /\ events < MaxEvents
    /\ u <= joined + 1
    /\ events' = events + 1
    /\ joined' = IF u > joined THEN u ELSE joined

\* The environment causes a failure (f) only while its budget lasts.
Inject(f) ==
    /\ f => budget # 0
    /\ budget' = IF f /\ budget > 0 THEN budget - 1 ELSE budget

\* ---------------------------------------------------------- rate limiter
\* time_elapsed = current_time - user_last_request[user_id]
time_elapsed(u, now) == now - user_last_request[u]

\* Faulty variant: the cooldown compared one tick short.
rate_limited_short(u, now) ==
    /\ user_last_request[u] # NoEntry
    /\ time_elapsed(u, now) < REQUEST_COOLDOWN * TicksPerSec - 1

\* "user_id in user_last_request and time_elapsed < REQUEST_COOLDOWN"
rate_limited(u, now) ==
    /\ user_last_request[u] # NoEntry
    /\ time_elapsed(u, now) < REQUEST_COOLDOWN * TicksPerSec

\* Faulty variant: the remaining wait rounded up.
wait_time_up(u, now) ==
    (REQUEST_COOLDOWN * TicksPerSec - time_elapsed(u, now) + TicksPerSec - 1)
        \div TicksPerSec

\* wait_time = int(REQUEST_COOLDOWN - time_elapsed): whole seconds, the
\* fraction dropped (the argument is positive where this is evaluated).
wait_time(u, now) ==
    (REQUEST_COOLDOWN * TicksPerSec - time_elapsed(u, now)) \div TicksPerSec

\* Faulty variant: the timestamp is written on a rejected request too.
check_rate_limit_stamp(u, now) ==
    [can_proceed |-> ~rate_limited(u, now),
     wait_time |-> IF rate_limited(u, now) THEN wait_time(u, now) ELSE 0,
     last |-> [user_last_request EXCEPT ![u] = now]]

\* check_rate_limit(user_id) -> (can_proceed, wait_time), and the map after it.
check_rate_limit(u, now) ==
    IF rate_limited(u, now)
    THEN [can_proceed |-> FALSE, wait_time |-> wait_time(u, now),
          last |-> user_last_request]
    ELSE [can_proceed |-> TRUE, wait_time |-> 0,
          last |-> [user_last_request EXCEPT ![u] = now]]

\* History: one entry for every call of check_rate_limit.
Logged(c, u, now, flow) ==
    Append(requests, [user |-> u, time |-> now, flow |-> flow,
                      can_proceed |-> c.can_proceed, wait_time |-> c.wait_time])

\* ------------------------------------------------------- shared fragments
SetTask(t, r) == tasks' = [tasks EXCEPT ![t] = r]

Finish(r) == [r EXCEPT !.pc = "done"]

\* An exception leaves generate_image or transform_image.  Under handle_photo
\* it is caught by handle_photo's "except Exception"; otherwise it leaves the
\* handler and the application calls error_handler.
Propagate(r) ==
    IF r.handler = "photo"
    THEN [r EXCEPT !.pc = "ph_reply_error"]
    ELSE [r EXCEPT !.pc = "error_handler", !.raised = TRUE]

\* save_generated_image returns (filepath, size) or, on any exception, (None, 0).
save_generated_image(r, ok) == [r EXCEPT !.saved = ok]

\* full_prompt = f"An image that {prompt}, maintaining the essence ..."
full_prompt(prompt) == "An image that " \o prompt

\* Faulty variant: one retry too many.
Attempt_extra(r, out, ok, pfx, now) ==
    LET c == [r EXCEPT !.api = Append(@, out),
                       !.api_prompt = IF r.flow = "transform"
                                      THEN full_prompt(r.prompt)
                                      ELSE r.prompt] IN
    CASE out = "ok" ->
            [save_generated_image(c, ok) EXCEPT !.pc = pfx \o "_send_photo"]
      [] out = "conn" ->
            IF c.attempt < max_retries
            THEN [c EXCEPT !.pc = pfx \o "_sleep",
                           !.wake = now + RETRY_DELAY * TicksPerSec,
                           !.delays = @ + 1]
            ELSE [c EXCEPT !.pc = pfx \o "_edit_error", !.err = "conn"]
      [] OTHER ->
            [c EXCEPT !.pc = pfx \o "_edit_error", !.err = out]

\* Faulty variant: an API rate limit is retried like a connection failure.
Attempt_retry_rate(r, out, ok, pfx, now) ==
    LET c == [r EXCEPT !.api = Append(@, out),
                       !.api_prompt = IF r.flow = "transform"
                                      THEN full_prompt(r.prompt)
                                      ELSE r.prompt] IN
    CASE out = "ok" ->
            [save_generated_image(c, ok) EXCEPT !.pc = pfx \o "_send_photo"]
      [] out \in {"conn", "rate"} ->
            IF c.attempt < max_retries - 1
            THEN [c EXCEPT !.pc = pfx \o "_sleep",
                           !.wake = now + RETRY_DELAY * TicksPerSec,
                           !.delays = @ + 1]
            ELSE [c EXCEPT !.pc = pfx \o "_edit_error", !.err = out]
      [] OTHER ->
            [c EXCEPT !.pc = pfx \o "_edit_error", !.err = out]

\* Faulty variant: a content-policy violation is not recognised and is handled
\* as a generic API error.
Attempt_policy_generic(r, out, ok, pfx, now) ==
    LET c == [r EXCEPT !.api = Append(@, out),
                       !.api_prompt = IF r.flow = "transform"
                                      THEN full_prompt(r.prompt)
                                      ELSE r.prompt] IN
    CASE out = "ok" ->
            [save_generated_image(c, ok) EXCEPT !.pc = pfx \o "_send_photo"]
      [] out = "conn" ->
            IF c.attempt < max_retries - 1
            THEN [c EXCEPT !.pc = pfx \o "_sleep",
                           !.wake = now + RETRY_DELAY * TicksPerSec,
                           !.delays = @ + 1]
            ELSE [c EXCEPT !.pc = pfx \o "_edit_error", !.err = "conn"]
      [] out = "policy" ->
            [c EXCEPT !.pc = pfx \o "_edit_error", !.err = "generic"]
      [] OTHER ->
            [c EXCEPT !.pc = pfx \o "_edit_error", !.err = out]

\* Faulty variant: a failed save of the image is treated as an unexpected error.
Attempt_save_fatal(r, out, ok, pfx, now) ==
    LET c == [r EXCEPT !.api = Append(@, out),
                       !.api_prompt = IF r.flow = "transform"
                                      THEN full_prompt(r.prompt)
                                      ELSE r.prompt] IN
    CASE out = "ok" ->
            IF ok
            THEN [save_generated_image(c, ok) EXCEPT !.pc = pfx \o "_send_photo"]
            ELSE [save_generated_image(c, ok) EXCEPT !.pc = pfx \o "_edit_error",
                                                     !.err = "other"]
      [] out = "conn" ->
            IF c.attempt < max_retries - 1
            THEN [c EXCEPT !.pc = pfx \o "_sleep",
                           !.wake = now + RETRY_DELAY * TicksPerSec,
                           !.delays = @ + 1]
            ELSE [c EXCEPT !.pc = pfx \o "_edit_error", !.err = "conn"]
      [] OTHER ->
            [c EXCEPT !.pc = pfx \o "_edit_error", !.err = out]

\* Faulty variant: the delay is taken after the last failed attempt as well.
Attempt_sleep_last(r, out, ok, pfx, now) ==
    LET c == [r EXCEPT !.api = Append(@, out),
                       !.api_prompt = IF r.flow = "transform"
                                      THEN full_prompt(r.prompt)
                                      ELSE r.prompt] IN
    CASE out = "ok" ->
            [save_generated_image(c, ok) EXCEPT !.pc = pfx \o "_send_photo"]
      [] out = "conn" ->
            IF c.attempt < max_retries - 1
            THEN [c EXCEPT !.pc = pfx \o "_sleep",
                           !.wake = now + RETRY_DELAY * TicksPerSec,
                           !.delays = @ + 1]
            ELSE [c EXCEPT !.pc = pfx \o "_edit_error", !.err = "conn",
                           !.wake = now + RETRY_DELAY * TicksPerSec,
                           !.delays = @ + 1]
      [] OTHER ->
            [c EXCEPT !.pc = pfx \o "_edit_error", !.err = out]

\* Faulty variant: a connection failure is retried without a limit.
Attempt_forever(r, out, ok, pfx, now) ==
    LET c == [r EXCEPT !.api = Append(@, out),
                       !.api_prompt = IF r.flow = "transform"
                                      THEN full_prompt(r.prompt)
                                      ELSE r.prompt] IN
    CASE out = "ok" ->
            [save_generated_image(c, ok) EXCEPT !.pc = pfx \o "_send_photo"]
      [] out = "conn" ->
            [c EXCEPT !.pc = pfx \o "_sleep",
                      !.wake = now + RETRY_DELAY * TicksPerSec,
                      !.delays = @ + 1]
      [] OTHER ->
            [c EXCEPT !.pc = pfx \o "_edit_error", !.err = out]

\* One iteration of "for attempt in range(max_retries)": the call of
\* client.images.generate with outcome out, up to the next await.
\* pfx is "ge" in generate_image and "tr" in transform_image.
Attempt(r, out, ok, pfx, now) ==
    LET c == [r EXCEPT !.api = Append(@, out),
                       !.api_prompt = IF r.flow = "transform"
                                      THEN full_prompt(r.prompt)
                                      ELSE r.prompt] IN
    CASE out = "ok" ->
            [save_generated_image(c, ok) EXCEPT !.pc = pfx \o "_send_photo"]
      [] out = "conn" ->
            IF c.attempt < max_retries - 1
            THEN [c EXCEPT !.pc = pfx \o "_sleep",
                           !.wake = now + RETRY_DELAY * TicksPerSec,
                           !.delays = @ + 1]
            ELSE [c EXCEPT !.pc = pfx \o "_edit_error", !.err = "conn"]
      [] OTHER ->
            [c EXCEPT !.pc = pfx \o "_edit_error", !.err = out]

\* transform_image from its first line to its first await (lines 438-466);
\* ud is the caller's context.user_data.
transform_begin(r, u, prompt, ud, now) ==
    LET q == [r EXCEPT !.flow = "transform", !.prompt = prompt] IN
    IF ud.uploaded_image_path = NoPath
    THEN [task |-> [q EXCEPT !.pc = "tr_reply_early"],
          last |-> user_last_request, log |-> requests]
    ELSE LET c == check_rate_limit(u, now)
             w == [q EXCEPT !.image = ud.uploaded_image_path,
                            !.req = Len(requests) + 1,
                            !.wait_time = c.wait_time] IN
         [task |-> [w EXCEPT !.pc = IF c.can_proceed THEN "tr_status"
                                                     ELSE "tr_reply_early"],
          last |-> c.last, log |-> Logged(c, u, now, "transform")]

\* Faulty variant: the pending upload is not looked at; every text is a plain prompt.
generate_begin_plain(r, u, prompt, now) ==
    LET c == check_rate_limit(u, now)
        q == [r EXCEPT !.flow = "generate", !.prompt = prompt,
                       !.req = Len(requests) + 1,
                       !.wait_time = c.wait_time] IN
    [task |-> [q EXCEPT !.pc = IF c.can_proceed THEN "ge_status"
                                                ELSE "ge_reply_limit"],
     last |-> c.last, log |-> Logged(c, u, now, "generate")]

\* generate_image from its first line to its first await (lines 597-624).
generate_begin(r, u, prompt, now) ==
    IF HasUpload(u)
    THEN transform_begin(r, u, prompt, user_data[u], now)
    ELSE LET c == check_rate_limit(u, now)
             q == [r EXCEPT !.flow = "generate", !.prompt = prompt,
                            !.req = Len(requests) + 1,
                            !.wait_time = c.wait_time] IN
         [task |-> [q EXCEPT !.pc = IF c.can_proceed THEN "ge_status"
                                                     ELSE "ge_reply_limit"],
          last |-> c.last, log |-> Logged(c, u, now, "generate")]

Max(a, b) == IF a >= b THEN a ELSE b

\* The readings the clock can give next: the time that passed since the
\* latest reading is one of Steps.
Steps == {0, REQUEST_COOLDOWN * TicksPerSec - 1, REQUEST_COOLDOWN * TicksPerSec}
Readings == {clock + d : d \in Steps} \cap 0..MaxClock

\* ------------------------------------------------- generate_image (text)
\* A text message arrives and generate_image runs to its first await.
generate_image(t, u, p, now) ==
    /\ Dispatch(t, u)
    /\ LET r == [IdleTask EXCEPT !.handler = "text", !.user = u,
                                 !.before = user_data[u]]
           b == generate_begin(r, u, p, now) IN
        /\ SetTask(t, b.task)
        /\ user_last_request' = b.last
        /\ requests' = b.log
    /\ clock' = now
    /\ UNCHANGED <<user_data, disk, budget, mode, picture>>

\* Faulty variant: the prompt of a rejected request is remembered as last_prompt.
generate_reply_limit_prompt(t, ok) ==
    /\ tasks[t].pc = "ge_reply_limit"
    /\ SetTask(t, IF ok
                  THEN Finish([tasks[t] EXCEPT !.shown = "rate_limited"])
                  ELSE Propagate(tasks[t]))
    /\ user_data' = [user_data EXCEPT ![tasks[t].user].last_prompt = tasks[t].prompt]
    /\ Inject(~ok)
    /\ UNCHANGED <<clock, user_last_request, disk, events, joined, requests, mode, picture>>

\* "await update.message.reply_text(Rate Limit ...)" then return (609-615).
generate_reply_limit(t, ok) ==
    /\ tasks[t].pc = "ge_reply_limit"
    /\ SetTask(t, IF ok
                  THEN Finish([tasks[t] EXCEPT !.shown = "rate_limited"])
                  ELSE Propagate(tasks[t]))
    /\ Inject(~ok)
    /\ UNCHANGED <<clock, user_last_request, user_data, disk, events, joined, requests, mode, picture>>

\* "status_message = await update.message.reply_text(...)" (619-624), outside
\* the try, then the first call of the API.
generate_status(t, ok, out, sv) ==
    /\ tasks[t].pc = "ge_status"
    /\ SetTask(t, IF ok
                  THEN Attempt([tasks[t] EXCEPT !.shown = "status"], out, sv, "ge", clock)
                  ELSE Propagate(tasks[t]))
    /\ Inject(~ok \/ out # "ok" \/ ~sv)
    /\ UNCHANGED <<clock, user_last_request, user_data, disk, events, joined, requests, mode, picture>>

\* "await asyncio.sleep(2); continue" (643-644): the next attempt.
generate_retry(t, out, sv) ==
    /\ tasks[t].pc = "ge_sleep"
    /\ LET now == Max(clock, tasks[t].wake) IN
        /\ clock' = now
        /\ SetTask(t, Attempt([tasks[t] EXCEPT !.attempt = @ + 1, !.wake = 0],
                              out, sv, "ge", now))
    /\ Inject(out # "ok" \/ ~sv)
    /\ UNCHANGED <<user_last_request, user_data, disk, events, joined, requests, mode, picture>>

\* "await update.message.reply_photo(...)" (654-660); a failure is caught by
\* "except Exception" (713).
generate_send_photo(t, ok) ==
    /\ tasks[t].pc = "ge_send_photo"
    /\ SetTask(t, IF ok
                  THEN [tasks[t] EXCEPT !.pc = "ge_delete_status", !.sent = TRUE,
                                        !.shown = "success"]
                  ELSE [tasks[t] EXCEPT !.pc = "ge_edit_error", !.err = "other"])
    /\ Inject(~ok)
    /\ UNCHANGED <<clock, user_last_request, user_data, disk, events, joined, requests, mode, picture>>

\* "await status_message.delete()" with its failure swallowed (662-665), then
\* the statistics (667-668).
generate_finish(t, ok) ==
    /\ tasks[t].pc = "ge_delete_status"
    /\ LET u == tasks[t].user IN
       user_data' = [user_data EXCEPT
                        ![u].images_generated = @ + 1,
                        ![u].last_prompt = tasks[t].prompt]
    /\ SetTask(t, Finish(tasks[t]))
    /\ Inject(~ok)
    /\ UNCHANGED <<clock, user_last_request, disk, events, joined, requests, mode, picture>>

\* Faulty variant: a failed generation gives the cooldown back.
generate_edit_error_refund(t, ok) ==
    /\ tasks[t].pc = "ge_edit_error"
    /\ SetTask(t, IF ok
                  THEN Finish([tasks[t] EXCEPT !.shown = tasks[t].err])
                  ELSE IF tasks[t].err = "other"
                       THEN Finish(tasks[t])
                       ELSE Propagate(tasks[t]))
    /\ user_last_request' = [user_last_request EXCEPT ![tasks[t].user] = NoEntry]
    /\ Inject(~ok)
    /\ UNCHANGED <<clock, user_data, disk, events, joined, requests, mode, picture>>

\* The except clauses (674-726): status_message.edit_text with the message of
\* the class.  Only the last clause guards edit_text with try/except.
generate_edit_error(t, ok) ==
    /\ tasks[t].pc = "ge_edit_error"
    /\ SetTask(t, IF ok
                  THEN Finish([tasks[t] EXCEPT !.shown = tasks[t].err])
                  ELSE IF tasks[t].err = "other"
                       THEN Finish(tasks[t])
                       ELSE Propagate(tasks[t]))
    /\ Inject(~ok)
    /\ UNCHANGED <<clock, user_last_request, user_data, disk, events, joined, requests, mode, picture>>


\* ------------------------------------------------------- transform_image
\* The reply of an early return: "No Image Found" (440-446) or "Rate Limit"
\* (451-457).
transform_reply_early(t, ok) ==
    /\ tasks[t].pc = "tr_reply_early"
    /\ SetTask(t, IF ok
                  THEN Finish([tasks[t] EXCEPT !.shown =
                                  IF tasks[t].req = 0
                                  THEN "no_image" ELSE "rate_limited"])
                  ELSE Propagate(tasks[t]))
    /\ Inject(~ok)
    /\ UNCHANGED <<clock, user_last_request, user_data, disk, events, joined, requests, mode, picture>>

\* prepare_image_for_api writes image_path's sibling "<name>_prepared.png".
prepare_image_for_api(u, image_path) == <<u, image_path>>

\* "status_message = await update.message.reply_text(...)" (461-466), then,
\* inside the try: image_path = user_data["uploaded_image_path"] (KeyError
\* when the key is gone), prepare_image_for_api (pr: it worked) and the first
\* call of the API.
transform_status(t, ok, pr, out, sv) ==
    /\ tasks[t].pc = "tr_status"
    /\ LET r == tasks[t]
           u == r.user
           image_path == user_data[u].uploaded_image_path
           s == [r EXCEPT !.shown = "status"] IN
       IF ~ok
       THEN SetTask(t, Propagate(r)) /\ disk' = disk
       ELSE IF image_path = NoPath \/ ~pr
       THEN /\ SetTask(t, [s EXCEPT !.pc = "tr_edit_error", !.err = "other"])
            /\ disk' = disk
       ELSE /\ SetTask(t, Attempt([s EXCEPT !.prepared =
                                      prepare_image_for_api(u, image_path)],
                                  out, sv, "tr", clock))
            /\ disk' = disk \cup {prepare_image_for_api(u, image_path)}
    /\ Inject(~ok \/ ~pr \/ out # "ok" \/ ~sv)
    /\ UNCHANGED <<clock, user_last_request, user_data, events, joined, requests, mode, picture>>

\* "await asyncio.sleep(2); continue" (497-498): the next attempt.
transform_retry(t, out, sv) ==
    /\ tasks[t].pc = "tr_sleep"
    /\ LET now == Max(clock, tasks[t].wake) IN
        /\ clock' = now
        /\ SetTask(t, Attempt([tasks[t] EXCEPT !.attempt = @ + 1, !.wake = 0],
                              out, sv, "tr", now))
    /\ Inject(out # "ok" \/ ~sv)
    /\ UNCHANGED <<user_last_request, user_data, disk, events, joined, requests, mode, picture>>

\* Faulty variant: the pending upload is forgotten when reply_photo fails.
transform_send_photo_forget(t, ok) ==
    /\ tasks[t].pc = "tr_send_photo"
    /\ SetTask(t, IF ok
                  THEN [tasks[t] EXCEPT !.pc = "tr_delete_status", !.sent = TRUE,
                                        !.shown = "success"]
                  ELSE [tasks[t] EXCEPT !.pc = "tr_edit_error", !.err = "other"])
    /\ user_data' = IF ok THEN user_data
                   ELSE [user_data EXCEPT
                            ![tasks[t].user].uploaded_image_path = NoPath]
    /\ Inject(~ok)
    /\ UNCHANGED <<clock, user_last_request, disk, events, joined, requests, mode, picture>>

\* "await update.message.reply_photo(...)" (509-515); a failure is caught by
\* "except Exception" (577).
transform_send_photo(t, ok) ==
    /\ tasks[t].pc = "tr_send_photo"
    /\ SetTask(t, IF ok
                  THEN [tasks[t] EXCEPT !.pc = "tr_delete_status", !.sent = TRUE,
                                        !.shown = "success"]
                  ELSE [tasks[t] EXCEPT !.pc = "tr_edit_error", !.err = "other"])
    /\ Inject(~ok)
    /\ UNCHANGED <<clock, user_last_request, user_data, disk, events, joined, requests, mode, picture>>

\* Faulty variant: the pending upload stays after a successful transformation.
transform_finish_keep(t, ok) ==
    /\ tasks[t].pc = "tr_delete_status"
    /\ LET r == tasks[t]
           u == r.user IN
        /\ disk' = disk \ {r.prepared}
        /\ SetTask(t, Finish(r))
        /\ user_data' = [user_data EXCEPT
                            ![u].images_transformed = @ + 1,
                            ![u].last_prompt = r.prompt]
    /\ Inject(~ok)
    /\ UNCHANGED <<clock, user_last_request, events, joined, requests, mode, picture>>

\* "await status_message.delete()" with its failure swallowed (518-521), the
\* removal of the prepared file (524-525), del user_data["uploaded_image_path"]
\* (528, KeyError when the key is gone) and the statistics (531-532).
transform_finish(t, ok) ==
    /\ tasks[t].pc = "tr_delete_status"
    /\ LET r == tasks[t]
           u == r.user IN
        /\ disk' = disk \ {r.prepared}
        /\ IF user_data[u].uploaded_image_path = NoPath
           THEN /\ SetTask(t, [r EXCEPT !.pc = "tr_edit_error", !.err = "other"])
                /\ user_data' = user_data
           ELSE /\ SetTask(t, Finish(r))
                /\ user_data' = [user_data EXCEPT
                                    ![u].uploaded_image_path = NoPath,
                                    ![u].images_transformed = @ + 1,
                                    ![u].last_prompt = r.prompt]
    /\ Inject(~ok)
    /\ UNCHANGED <<clock, user_last_request, events, joined, requests, mode, picture>>

\* Faulty variant: a failed transformation is counted as well.
transform_edit_error_count(t, ok) ==
    /\ tasks[t].pc = "tr_edit_error"
    /\ SetTask(t, IF ok
                  THEN Finish([tasks[t] EXCEPT !.shown = tasks[t].err])
                  ELSE IF tasks[t].err = "other"
                       THEN Finish(tasks[t])
                       ELSE Propagate(tasks[t]))
    /\ user_data' = [user_data EXCEPT ![tasks[t].user].images_transformed = @ + 1]
    /\ Inject(~ok)
    /\ UNCHANGED <<clock, user_last_request, disk, events, joined, requests, mode, picture>>

\* The except clauses (538-593): status_message.edit_text with the message of
\* the class.  Only the last clause guards edit_text with try/except.
transform_edit_error(t, ok) ==
    /\ tasks[t].pc = "tr_edit_error"
    /\ SetTask(t, IF ok
                  THEN Finish([tasks[t] EXCEPT !.shown = tasks[t].err])
                  ELSE IF tasks[t].err = "other"
                       THEN Finish(tasks[t])
                       ELSE Propagate(tasks[t]))
    /\ Inject(~ok)
    /\ UNCHANGED <<clock, user_last_request, user_data, disk, events, joined, requests, mode, picture>>

\* ---------------------------------------------------------- handle_photo
\* A photo arrives (cap: its caption or None).  handle_photo names the file
\* by the second of datetime.now() (380-382) and awaits get_file (385).
handle_photo(t, u, cap, now) ==
    /\ Dispatch(t, u)
    /\ SetTask(t, [IdleTask EXCEPT !.handler = "photo", !.user = u,
                                   !.before = user_data[u],
                                   !.caption = cap,
                                   !.filepath = now \div TicksPerSec,
                                   !.pc = "ph_get_file"])
    /\ clock' = now
    /\ UNCHANGED <<user_last_request, user_data, disk, requests, budget, mode, picture>>

\* "file = await context.bot.get_file(photo.file_id)" (385).
photo_get_file(t, ok) ==
    /\ tasks[t].pc = "ph_get_file"
    /\ SetTask(t, [tasks[t] EXCEPT !.pc = IF ok THEN "ph_download"
                                                ELSE "ph_reply_error"])
    /\ Inject(~ok)
    /\ UNCHANGED <<clock, user_last_request, user_data, disk, events, joined, requests, mode, picture>>

\* Faulty variant: the caption is ignored and the user is always asked what to do.
photo_download_ask(t, ok, now) ==
    /\ tasks[t].pc = "ph_download"
    /\ LET q == tasks[t]
           u == q.user
           r == [q EXCEPT !.image = q.filepath]
           ud == [user_data[u] EXCEPT !.uploaded_image_path = q.filepath,
                                      !.images_uploaded = @ + 1] IN
       IF ~ok
       THEN /\ SetTask(t, [q EXCEPT !.pc = "ph_reply_error"])
            /\ UNCHANGED user_data
       ELSE /\ user_data' = [user_data EXCEPT ![u] = ud]
            /\ SetTask(t, [r EXCEPT !.pc = "ph_reply_received"])
    /\ now = clock
    /\ Inject(~ok)
    /\ UNCHANGED <<clock, user_last_request, requests, disk, events, joined, mode, picture>>

\* "await file.download_to_drive(filepath)" (386), then the path and the
\* upload count are stored (389-392) and, with a caption, transform_image is
\* entered (395-397).
photo_download(t, ok, now) ==
    /\ tasks[t].pc = "ph_download"
    /\ LET q == tasks[t]
           u == q.user
           r == [q EXCEPT !.image = q.filepath]
           ud == [user_data[u] EXCEPT !.uploaded_image_path = q.filepath,
                                      !.images_uploaded = @ + 1] IN
       IF ~ok
       THEN /\ SetTask(t, [q EXCEPT !.pc = "ph_reply_error"])
            /\ UNCHANGED <<clock, user_data, user_last_request, requests>>
       ELSE /\ user_data' = [user_data EXCEPT ![u] = ud]
            /\ IF r.caption # None
               THEN LET b == transform_begin(r, u, r.caption, ud, now) IN
                    /\ SetTask(t, b.task)
                    /\ user_last_request' = b.last
                    /\ requests' = b.log
                    /\ clock' = now
               ELSE /\ SetTask(t, [r EXCEPT !.pc = "ph_reply_received"])
                    /\ UNCHANGED <<clock, user_last_request, requests>>
    /\ Inject(~ok)
    /\ UNCHANGED <<disk, events, joined, mode, picture>>

\* "await update.message.reply_text(Image Received ...)" (400-410).
photo_reply_received(t, ok) ==
    /\ tasks[t].pc = "ph_reply_received"
    /\ SetTask(t, IF ok
                  THEN Finish([tasks[t] EXCEPT !.shown = "received"])
                  ELSE [tasks[t] EXCEPT !.pc = "ph_reply_error"])
    /\ Inject(~ok)
    /\ UNCHANGED <<clock, user_last_request, user_data, disk, events, joined, requests, mode, picture>>

\* handle_photo's "except Exception": reply_text(Upload Error ...) (414-428);
\* a failure of this reply leaves the handler.
photo_reply_error(t, ok) ==
    /\ tasks[t].pc = "ph_reply_error"
    /\ SetTask(t, IF ok
                  THEN Finish([tasks[t] EXCEPT !.shown = "upload_error"])
                  ELSE [tasks[t] EXCEPT !.pc = "error_handler", !.raised = TRUE])
    /\ Inject(~ok)
    /\ UNCHANGED <<clock, user_last_request, user_data, disk, events, joined, requests, mode, picture>>

\* ---------------------------------------------------------- clear_command
\* Faulty variant: /clear empties the whole session, not only the upload.
clear_command_all(t, u) ==
    /\ Dispatch(t, u)
    /\ SetTask(t, [IdleTask EXCEPT !.handler = "clear", !.user = u,
                                   !.before = user_data[u],
                                   !.image = user_data[u].uploaded_image_path,
                                   !.pc = "cl_reply"])
    /\ user_data' = [user_data EXCEPT ![u] = EmptyUserData]
    /\ UNCHANGED <<clock, user_last_request, disk, requests, budget, mode, picture>>

\* /clear arrives: the pending upload is deleted when there is one (303-304),
\* then the reply is awaited.
clear_command(t, u) ==
    /\ Dispatch(t, u)
    /\ SetTask(t, [IdleTask EXCEPT !.handler = "clear", !.user = u,
                                   !.before = user_data[u],
                                   !.image = user_data[u].uploaded_image_path,
                                   !.pc = "cl_reply"])
    /\ user_data' = [user_data EXCEPT ![u].uploaded_image_path = NoPath]
    /\ UNCHANGED <<clock, user_last_request, disk, requests, budget, mode, picture>>

\* "await update.message.reply_text(...)" (305-313).
clear_reply(t, ok) ==
    /\ tasks[t].pc = "cl_reply"
    /\ SetTask(t, IF ok
                  THEN Finish([tasks[t] EXCEPT !.shown =
                                  IF tasks[t].image = NoPath
                                  THEN "no_image_to_clear" ELSE "cleared"])
                  ELSE Propagate(tasks[t]))
    /\ Inject(~ok)
    /\ UNCHANGED <<clock, user_last_request, user_data, disk, events, joined, requests, mode, picture>>

\* ---------------------------------------------------------- error_handler
\* Faulty variant: error_handler drops the user's session data.
error_handler_reset(t, ok) ==
    /\ tasks[t].pc = "error_handler"
    /\ SetTask(t, Finish(IF ok
                         THEN [tasks[t] EXCEPT !.shown = "system_error"]
                         ELSE tasks[t]))
    /\ user_data' = [user_data EXCEPT ![tasks[t].user] = EmptyUserData]
    /\ Inject(~ok)
    /\ UNCHANGED <<clock, user_last_request, disk, events, joined, requests, mode, picture>>

\* error_handler (729-744): one reply_text is tried; its failure is swallowed.
error_handler(t, ok) ==
    /\ tasks[t].pc = "error_handler"
    /\ SetTask(t, Finish(IF ok
                         THEN [tasks[t] EXCEPT !.shown = "system_error"]
                         ELSE tasks[t]))
    /\ Inject(~ok)
    /\ UNCHANGED <<clock, user_last_request, user_data, disk, events, joined, requests, mode, picture>>

\* ----------------------------------------------------------- specification
InitState ==
    /\ clock = 0
    /\ user_last_request = [u \in Users |-> NoEntry]
    /\ user_data = [u \in Users |-> EmptyUserData]
    /\ tasks = [t \in TaskIds |-> IdleTask]
    /\ disk = {}
    /\ events = 0
    /\ joined = 0
    /\ requests = <<>>

\* The application as main() builds it.
Init == InitState /\ mode = "seq" /\ budget = Unlimited /\ picture = NoPicture

\* Handlers as concurrent tasks.
InitConc == InitState /\ mode = "all" /\ budget = MaxFaults /\ picture = NoPicture

Next ==
    \/ \E t \in TaskIds, u \in Users, p \in Prompts, now \in Readings :
          generate_image(t, u, p, now)
    \/ \E t \in TaskIds, ok \in BOOLEAN : generate_reply_limit(t, ok)
    \/ \E t \in TaskIds, ok \in BOOLEAN, out \in ApiOutcomes, sv \in BOOLEAN :
          generate_status(t, ok, out, sv)
    \/ \E t \in TaskIds, out \in ApiOutcomes, sv \in BOOLEAN : generate_retry(t, out, sv)
    \/ \E t \in TaskIds, ok \in BOOLEAN : generate_send_photo(t, ok)
    \/ \E t \in TaskIds, ok \in BOOLEAN : generate_finish(t, ok)
    \/ \E t \in TaskIds, ok \in BOOLEAN : generate_edit_error(t, ok)
    \/ \E t \in TaskIds, ok \in BOOLEAN : transform_reply_early(t, ok)
    \/ \E t \in TaskIds, ok \in BOOLEAN, pr \in BOOLEAN, out \in ApiOutcomes, sv \in BOOLEAN :
          transform_status(t, ok, pr, out, sv)
    \/ \E t \in TaskIds, out \in ApiOutcomes, sv \in BOOLEAN : transform_retry(t, out, sv)
    \/ \E t \in TaskIds, ok \in BOOLEAN : transform_send_photo(t, ok)
    \/ \E t \in TaskIds, ok \in BOOLEAN : transform_finish(t, ok)
    \/ \E t \in TaskIds, ok \in BOOLEAN : transform_edit_error(t, ok)
    \/ \E t \in TaskIds, u \in Users, cap \in Captions \cup {None}, now \in Readings : 
          handle_photo(t, u, cap, now)
    \/ \E t \in TaskIds, ok \in BOOLEAN : photo_get_file(t, ok)
    \/ \E t \in TaskIds, ok \in BOOLEAN, now \in Readings : photo_download(t, ok, now)
    \/ \E t \in TaskIds, ok \in BOOLEAN : photo_reply_received(t, ok)
    \/ \E t \in TaskIds, ok \in BOOLEAN : photo_reply_error(t, ok)
    \/ \E t \in TaskIds, u \in Users : clear_command(t, u)
    \/ \E t \in TaskIds, ok \in BOOLEAN : clear_reply(t, ok)
    \/ \E t \in TaskIds, ok \in BOOLEAN : error_handler(t, ok)

Spec == Init /\ [][Next]_vars
SpecConc == InitConc /\ [][Next]_vars

\* The next step of the handler running as task t: the external call it
\* awaits returns or raises.
Step(t) ==
    \/ \E ok \in BOOLEAN : generate_reply_limit(t, ok)
    \/ \E ok \in BOOLEAN, out \in ApiOutcomes, sv \in BOOLEAN :
          generate_status(t, ok, out, sv)
    \/ \E out \in ApiOutcomes, sv \in BOOLEAN : generate_retry(t, out, sv)
    \/ \E ok \in BOOLEAN : generate_send_photo(t, ok)
    \/ \E ok \in BOOLEAN : generate_finish(t, ok)
    \/ \E ok \in BOOLEAN : generate_edit_error(t, ok)
    \/ \E ok \in BOOLEAN : transform_reply_early(t, ok)
    \/ \E ok \in BOOLEAN, pr \in BOOLEAN, out \in ApiOutcomes, sv \in BOOLEAN :
          transform_status(t, ok, pr, out, sv)
    \/ \E out \in ApiOutcomes, sv \in BOOLEAN : transform_retry(t, out, sv)
    \/ \E ok \in BOOLEAN : transform_send_photo(t, ok)
    \/ \E ok \in BOOLEAN : transform_finish(t, ok)
    \/ \E ok \in BOOLEAN : transform_edit_error(t, ok)
    \/ \E ok \in BOOLEAN : photo_get_file(t, ok)
    \/ \E ok \in BOOLEAN, now \in Readings : photo_download(t, ok, now)
    \/ \E ok \in BOOLEAN : photo_reply_received(t, ok)
    \/ \E ok \in BOOLEAN : photo_reply_error(t, ok)
    \/ \E ok \in BOOLEAN : clear_reply(t, ok)
    \/ \E ok \in BOOLEAN : error_handler(t, ok)

\* The event loop resumes every task whose awaited call has returned or
\* raised: no handler that can take a step waits forever.
Fairness == \A t \in TaskIds : WF_vars(Step(t))

SpecLive == Init /\ [][Next]_vars /\ Fairness

\* ------------------------------------------------- prepare_image_for_api
\* Colour modes of the images Pillow opens.
Modes == {"1", "L", "LA", "P", "PA", "RGB", "RGBA", "CMYK"}

\* Modes with an alpha channel, or (P) a palette that can hold transparency.
TransparentModes == {"LA", "P", "PA", "RGBA"}

\* Modes img.save(output_path, "PNG") can write; it raises OSError for others.
PngModes == {"1", "L", "LA", "I", "P", "RGB", "RGBA"}

\* Widths and heights of the images given to prepare_image_for_api.
Dims == {1, 2, 1023, 1024, 1025, 2000, 3000}

Images == [mode : Modes, width : Dims, height : Dims]

Abs(x) == IF x >= 0 THEN x ELSE 0 - x

\* Image.thumbnail((max_size, max_size)): the size that keeps the aspect ratio
\* inside the box.  The side that shrinks is num / den rounded down or up,
\* whichever keeps the ratio closer (down when equal), and is at least 1.
thumbnail(w, h) ==
    IF max_size >= w /\ max_size >= h
    THEN [width |-> w, height |-> h]
    ELSE IF h >= w
    THEN LET fl == (max_size * w) \div h
             ce == IF (max_size * w) % h = 0 THEN fl ELSE fl + 1
             x  == IF Abs(max_size * w - fl * h) <= Abs(max_size * w - ce * h)
                   THEN fl ELSE ce IN
         [width |-> Max(x, 1), height |-> max_size]
    ELSE LET fl == (max_size * h) \div w
             ce == IF (max_size * h) % w = 0 THEN fl ELSE fl + 1
             y  == IF fl = 0 THEN fl
                   ELSE IF Abs(w * fl - max_size * h) * ce
                            <= Abs(w * ce - max_size * h) * fl
                   THEN fl ELSE ce IN
         [width |-> max_size, height |-> Max(y, 1)]

\* Faulty variant: LA is missing from the modes that are flattened.
prepared_image_la(img) ==
    LET m == IF img.mode \in {"RGBA", "P"} THEN "RGB" ELSE img.mode
        size == IF img.width > max_size \/ img.height > max_size
                THEN thumbnail(img.width, img.height)
                ELSE [width |-> img.width, height |-> img.height] IN
    [raised |-> m \notin PngModes, mode |-> m,
     width |-> size.width, height |-> size.height]

\* What prepare_image_for_api writes for the image img: RGBA, LA and P are
\* pasted on a white RGB background of the same size (343-350), an image wider
\* or higher than max_size is shrunk by thumbnail (353-355), and the PNG is
\* saved (359), which raises for a mode PNG cannot hold.
prepared_image(img) ==
    LET m == IF img.mode \in {"RGBA", "LA", "P"} THEN "RGB" ELSE img.mode
        size == IF img.width > max_size \/ img.height > max_size
                THEN thumbnail(img.width, img.height)
                ELSE [width |-> img.width, height |-> img.height] IN
    [raised |-> m \notin PngModes, mode |-> m,
     width |-> size.width, height |-> size.height]

\* prepare_image_for_api is applied to the image.
PrepareImage ==
    /\ picture.output = <<>>
    /\ picture' = [picture EXCEPT !.output = <<prepared_image(picture.input)>>]
    /\ UNCHANGED <<clock, user_last_request, user_data, tasks, disk, events,
                   joined, requests, budget, mode>>

\* Any image may be given to prepare_image_for_api.
InitPrepare ==
    /\ InitState /\ mode = "seq" /\ budget = Unlimited
    /\ picture \in [input : Images, output : {<<>>}]

NextPrepare == PrepareImage

SpecPrepare == InitPrepare /\ [][NextPrepare]_vars

\* =================================================================== claims
Cooldown == REQUEST_COOLDOWN * TicksPerSec

Log == 1..Len(requests)

\* The accepted requests of user u among the first n calls of check_rate_limit.
Accepted(u, n) ==
    {k \in 1..n : requests[k].user = u /\ requests[k].can_proceed}

\* When user u was last accepted before call n + 1, or NoEntry.
LastAccepted(u, n) ==
    IF Accepted(u, n) = {}
    THEN NoEntry
    ELSE requests[CHOOSE k \in Accepted(u, n) :
                      \A j \in Accepted(u, n) : j <= k].time

\* Time between call k and the last accepted request of its user (only where
\* there is one).
Elapsed(k) == requests[k].time - LastAccepted(requests[k].user, k - 1)

Done(t) == tasks[t].pc = "done"
IsRequest(t) == tasks[t].flow \in {"generate", "transform"}
UserData(t) == user_data[tasks[t].user]

\* C1: with handlers interleaving at their awaits, any two requests of one user
\* that check_rate_limit accepts, through generate_image or transform_image,
\* are at least REQUEST_COOLDOWN seconds apart, and whether a request is
\* accepted depends only on the accepted requests of the same user.
C1_CooldownBetweenAccepted ==
    /\ \A i \in Log, j \in Log :
          (/\ i < j
           /\ requests[i].user = requests[j].user
           /\ requests[i].can_proceed
           /\ requests[j].can_proceed)
          => requests[j].time - requests[i].time >= Cooldown
    /\ \A k \in Log :
          requests[k].can_proceed <=>
             (\/ LastAccepted(requests[k].user, k - 1) = NoEntry
              \/ Elapsed(k) >= Cooldown)

\* Two handlers of one user are running, one accepted through generate_image
\* and one through transform_image, and another user was accepted in between.
C1_Witness ==
    \E t1 \in TaskIds, t2 \in TaskIds :
        /\ t1 # t2
        /\ Active(t1) /\ Active(t2)
        /\ tasks[t1].user = tasks[t2].user
        /\ tasks[t1].flow = "generate" /\ tasks[t2].flow = "transform"
        /\ tasks[t1].req # 0 /\ tasks[t2].req # 0
        /\ requests[tasks[t1].req].can_proceed
        /\ requests[tasks[t2].req].can_proceed
        /\ \E k \in Log :
              /\ requests[k].user # tasks[t1].user
              /\ requests[k].can_proceed
              /\ tasks[t1].req < k /\ k < tasks[t2].req

\* The wait of a rejected request is the remaining cooldown, rounded down.
RoundedDown(k) ==
    /\ requests[k].wait_time * TicksPerSec <= Cooldown - Elapsed(k)
    /\ Cooldown - Elapsed(k) < (requests[k].wait_time + 1) * TicksPerSec

\* C2 as stated: a rejected request is told to wait REQUEST_COOLDOWN -
\* time_elapsed rounded down, and that is >= 0 and < REQUEST_COOLDOWN, also
\* when time_elapsed = 0.
C2_WaitBelowCooldown ==
    \A k \in Log :
        ~requests[k].can_proceed =>
            /\ RoundedDown(k)
            /\ requests[k].wait_time >= 0
            /\ requests[k].wait_time < REQUEST_COOLDOWN

\* C2, amended: a rejected request is told to wait REQUEST_COOLDOWN -
\* time_elapsed rounded down; that is >= 0 and <= REQUEST_COOLDOWN, and it is
\* REQUEST_COOLDOWN exactly when time_elapsed = 0.
C2_WaitWithinCooldown ==
    \A k \in Log :
        ~requests[k].can_proceed =>
            /\ RoundedDown(k)
            /\ requests[k].wait_time >= 0
            /\ requests[k].wait_time <= REQUEST_COOLDOWN
            /\ requests[k].wait_time = REQUEST_COOLDOWN <=> Elapsed(k) = 0
            /\ \A t \in TaskIds :
                  tasks[t].req = k => tasks[t].wait_time = requests[k].wait_time

\* A request is rejected a fraction of a second before the cooldown ends, so
\* that the rounding drops something.
C2_Witness ==
    \E k \in Log :
        /\ ~requests[k].can_proceed
        /\ Elapsed(k) > 0
        /\ (Cooldown - Elapsed(k)) % TicksPerSec # 0

\* C3: a request made when the user has no entry, or when at least
\* REQUEST_COOLDOWN seconds have passed since the user's last accepted request,
\* is accepted with wait 0, whatever was rejected in between, and the user's
\* timestamp is the time of the user's latest accepted request.
C3_AcceptedAfterCooldown ==
    /\ \A k \in Log :
          (\/ LastAccepted(requests[k].user, k - 1) = NoEntry
           \/ Elapsed(k) >= Cooldown)
          => requests[k].can_proceed /\ requests[k].wait_time = 0
    /\ \A u \in Users :
          user_last_request[u] = LastAccepted(u, Len(requests))

\* A user is accepted, rejected, and accepted again once the cooldown is over.
C3_Witness ==
    \E i \in Log, j \in Log, k \in Log :
        /\ i < j /\ j < k
        /\ requests[i].user = requests[j].user
        /\ requests[j].user = requests[k].user
        /\ requests[i].can_proceed
        /\ ~requests[j].can_proceed
        /\ requests[k].can_proceed
        /\ user_last_request[requests[k].user] = requests[k].time

\* The request of task t got a connection failure on attempts 1 and 2 and no
\* failure on attempt 3 (if it made one).
TwoFailuresThenOk(t) ==
    /\ IsRequest(t)
    /\ Len(tasks[t].api) >= 2
    /\ tasks[t].api[1] = "conn"
    /\ tasks[t].api[2] = "conn"
    /\ Len(tasks[t].api) >= 3 => tasks[t].api[3] = "ok"

\* The counter of the request's flow is one more than when the handler began.
Counted(t) ==
    IF tasks[t].flow = "generate"
    THEN UserData(t).images_generated = tasks[t].before.images_generated + 1
    ELSE UserData(t).images_transformed = tasks[t].before.images_transformed + 1

\* No counter of the request's flow differs from when the handler began.
NotCounted(t) ==
    /\ UserData(t).images_generated = tasks[t].before.images_generated
    /\ UserData(t).images_transformed = tasks[t].before.images_transformed

OnlyConnectionFailures(t) ==
    /\ IsRequest(t)
    /\ Len(tasks[t].api) >= 1
    /\ \A i \in 1..Len(tasks[t].api) : tasks[t].api[i] = "conn"

\* C5 as stated: a request whose calls all fail to connect ends, after exactly
\* 3 calls, with the connection error reported to the user; no request makes
\* more than 3 calls.
C5_ConnectionErrorReported ==
    \A t \in TaskIds :
        /\ calls(tasks[t]) <= 3
        /\ (Done(t) /\ OnlyConnectionFailures(t)) =>
              /\ calls(tasks[t]) = 3
              /\ tasks[t].shown = "conn"

\* C5, amended: such a request ends after exactly 3 calls in the connection
\* error clause; the user is shown the connection error unless edit_text
\* raises, and then the exception leaves generate_image or transform_image.
C5_ConnectionErrorAfterThree ==
    \A t \in TaskIds :
        /\ calls(tasks[t]) <= 3
        /\ (Done(t) /\ OnlyConnectionFailures(t)) =>
              /\ calls(tasks[t]) = 3
              /\ tasks[t].err = "conn"
              /\ ~tasks[t].sent
              /\ \/ tasks[t].shown = "conn"
                 \/ tasks[t].raised
                 \/ tasks[t].handler = "photo" /\ tasks[t].shown = "upload_error"

\* A plain generation ended with the connection error after three calls.
C5_Witness ==
    \E t \in TaskIds :
        /\ Done(t)
        /\ tasks[t].flow = "generate"
        /\ tasks[t].api = <<"conn", "conn", "conn">>
        /\ tasks[t].shown = "conn"

\* C6: a failure of the call that is not a connection failure ends the
\* request at once: it is the request's last call (so on the first attempt
\* the request made exactly 1 call), no delay follows it and nothing is sent.
C6_NoRetryOfOtherFailures ==
    \A t \in TaskIds :
        \A i \in 1..Len(tasks[t].api) :
            tasks[t].api[i] \notin {"ok", "conn"} =>
                /\ i = Len(tasks[t].api)
                /\ tasks[t].err = tasks[t].api[i]
                /\ tasks[t].pc \notin {"ge_sleep", "tr_sleep"}
                /\ tasks[t].delays = i - 1
                /\ ~tasks[t].sent

\* A plain generation ended after one call that failed with an API error.
C6_Witness ==
    \E t \in TaskIds :
        /\ Done(t)
        /\ tasks[t].flow = "generate"
        /\ tasks[t].api = <<"generic">>
        /\ tasks[t].shown = "generic"

\* C7: when a photo upload without caption has completed, the user has the
\* upload pending and no generation call was made; a text message of a user
\* with a pending upload is routed to transform_image for that upload and
\* leaves images_generated alone; and when the transformation succeeded the
\* user has no pending upload.
C7_UploadThenInstruction ==
    \A t \in TaskIds :
        /\ (/\ Done(t)
            /\ tasks[t].handler = "photo"
            /\ tasks[t].caption = None
            /\ tasks[t].shown = "received")
           => /\ UserData(t).uploaded_image_path = tasks[t].filepath
              /\ tasks[t].api = <<>>
              /\ tasks[t].req = 0
        /\ (tasks[t].handler = "text" /\ tasks[t].before.uploaded_image_path # NoPath)
           => /\ tasks[t].flow = "transform"
              /\ tasks[t].image = tasks[t].before.uploaded_image_path
              /\ UserData(t).images_generated = tasks[t].before.images_generated
        /\ (/\ Done(t)
            /\ tasks[t].handler = "text"
            /\ tasks[t].flow = "transform"
            /\ tasks[t].sent)
           => UserData(t).uploaded_image_path = NoPath

\* The text that followed an upload was transformed and the upload is no
\* longer pending.
C7_Witness ==
    \E t \in TaskIds :
        /\ Done(t)
        /\ tasks[t].handler = "text"
        /\ tasks[t].flow = "transform"
        /\ tasks[t].before.uploaded_image_path # NoPath
        /\ tasks[t].before.images_uploaded = 1
        /\ tasks[t].sent
        /\ calls(tasks[t]) >= 1
        /\ UserData(t).uploaded_image_path = NoPath
        /\ UserData(t).images_generated = 0

\* C8: after a transformation request that failed (rejected by the rate
\* limiter, a failure of the call, a failure while sending the result) the
\* pending upload is the one the request was made for, and a later text is
\* an instruction for that upload.
C8_FailureKeepsUpload ==
    \A t \in TaskIds :
        /\ (/\ Done(t)
            /\ tasks[t].flow = "transform"
            /\ tasks[t].image # NoPath
            /\ ~tasks[t].sent)
           => UserData(t).uploaded_image_path = tasks[t].image
        /\ (tasks[t].handler = "text" /\ tasks[t].before.uploaded_image_path # NoPath)
           => /\ tasks[t].flow = "transform"
              /\ tasks[t].image = tasks[t].before.uploaded_image_path

\* A second instruction for an upload whose first transformation was accepted
\* and failed while the result was sent.
C8_Witness ==
    \E t \in TaskIds :
        /\ Done(t)
        /\ tasks[t].handler = "text"
        /\ tasks[t].flow = "transform"
        /\ tasks[t].req = 2
        /\ requests[1].flow = "transform"
        /\ requests[1].user = tasks[t].user
        /\ requests[1].can_proceed
        /\ tasks[t].before.images_transformed = 0
        /\ tasks[t].image = tasks[t].before.uploaded_image_path
        /\ tasks[t].api = <<"ok">>
        /\ ~tasks[t].sent
        /\ UserData(t).uploaded_image_path = tasks[t].image

\* What a finished handler has added to the counters: 1 to images_generated
\* by a plain generation that was sent, 1 to images_transformed by a
\* transformation that was sent, 1 to images_uploaded by a stored photo.
CountersAfter(t) ==
    LET r == tasks[t]
        gen == IF r.flow = "generate" /\ r.sent THEN 1 ELSE 0
        tra == IF r.flow = "transform" /\ r.sent THEN 1 ELSE 0
        upl == IF r.handler = "photo" /\ r.image # NoPath THEN 1 ELSE 0 IN
    /\ UserData(t).images_generated = r.before.images_generated + gen
    /\ UserData(t).images_transformed = r.before.images_transformed + tra
    /\ UserData(t).images_uploaded = r.before.images_uploaded + upl

\* C9: a finished handler has added exactly 1 to the counter of each of its
\* operations that succeeded (the upload of a captioned photo also when its
\* transformation failed) and nothing else, and no step decreases a counter.
C9_Counters ==
    [][/\ \A u \in Users :
             /\ user_data'[u].images_generated >= user_data[u].images_generated
             /\ user_data'[u].images_transformed >= user_data[u].images_transformed
             /\ user_data'[u].images_uploaded >= user_data[u].images_uploaded
       /\ \A t \in TaskIds : Done(t)' => CountersAfter(t)']_vars

\* A captioned photo was stored and its transformation failed: only
\* images_uploaded moved.
C9_Witness ==
    \E t \in TaskIds :
        /\ Done(t)
        /\ tasks[t].handler = "photo"
        /\ tasks[t].caption # None
        /\ tasks[t].api = <<"policy">>
        /\ UserData(t).images_uploaded = tasks[t].before.images_uploaded + 1
        /\ UserData(t).images_transformed = tasks[t].before.images_transformed

\* The upload of a captioned photo was stored by the handler of task t.
CaptionedUpload(t) ==
    /\ tasks[t].handler = "photo"
    /\ tasks[t].caption # None
    /\ tasks[t].image # NoPath

\* C10 as stated: a stored photo with a caption leads to a call of the
\* generation API with the caption as the instruction, in the same handler.
C10_CaptionCallsApi ==
    \A t \in TaskIds :
        (Done(t) /\ CaptionedUpload(t)) =>
            /\ calls(tasks[t]) >= 1
            /\ tasks[t].api_prompt = full_prompt(tasks[t].caption)

\* C10, amended: a stored photo with a caption enters transform_image in the
\* same handler with the caption as the instruction and the user is never
\* asked for one; the API is called, with the prompt made of the caption,
\* unless the rate limiter rejects the request, the status message cannot be
\* sent or the image cannot be prepared.
C10_CaptionIsInstruction ==
    \A t \in TaskIds :
        CaptionedUpload(t) =>
            /\ tasks[t].flow = "transform"
            /\ tasks[t].prompt = tasks[t].caption
            /\ tasks[t].pc # "ph_reply_received"
            /\ tasks[t].shown # "received"
            /\ tasks[t].req # 0
            /\ calls(tasks[t]) >= 1 =>
                  tasks[t].api_prompt = full_prompt(tasks[t].caption)
            /\ (Done(t) /\ calls(tasks[t]) = 0) =>
                  \/ ~requests[tasks[t].req].can_proceed
                  \/ tasks[t].shown \in {None, "upload_error", "system_error"}
                  \/ tasks[t].err = "other"

\* A captioned photo was transformed by its own handler.
C10_Witness ==
    \E t \in TaskIds :
        /\ Done(t)
        /\ CaptionedUpload(t)
        /\ requests[tasks[t].req].can_proceed
        /\ calls(tasks[t]) = 1
        /\ tasks[t].api_prompt = full_prompt(tasks[t].caption)
        /\ tasks[t].sent

\* The pending upload reference of user u (one value, or NoPath for none).
Pending(u) == user_data[u].uploaded_image_path

\* C11: a user has at most one pending upload reference.  A step gives a user
\* a reference only when handle_photo stores a downloaded photo, and then the
\* reference is that photo's path whatever was pending before; the step that
\* completes a transformation successfully leaves the user with none.
C11_OnePendingUpload ==
    [][\A u \in Users :
          /\ (Pending(u)' # Pending(u) /\ Pending(u)' # NoPath) =>
                \E t \in TaskIds :
                    /\ tasks[t].pc = "ph_download"
                    /\ tasks[t].handler = "photo"
                    /\ tasks[t].user = u
                    /\ tasks'[t].image = tasks[t].filepath
                    /\ Pending(u)' = tasks[t].filepath
          /\ \A t \in TaskIds :
                (/\ tasks[t].user = u
                 /\ tasks[t].pc = "ph_download"
                 /\ tasks'[t].image # NoPath) => Pending(u)' = tasks[t].filepath
          /\ \A t \in TaskIds :
                (/\ tasks[t].user = u
                 /\ tasks[t].pc = "tr_delete_status"
                 /\ tasks'[t].pc = "done") => Pending(u)' = NoPath]_vars

\* A second photo replaced the reference of an earlier one.
C11_Witness ==
    \E t \in TaskIds :
        /\ tasks[t].handler = "photo"
        /\ tasks[t].image # NoPath
        /\ tasks[t].before.uploaded_image_path # NoPath
        /\ tasks[t].before.uploaded_image_path # tasks[t].filepath
        /\ Pending(tasks[t].user) = tasks[t].filepath

\* The request of task t was rejected by check_rate_limit.
Rejected(t) ==
    tasks[t].req # 0 /\ ~requests[tasks[t].req].can_proceed

\* The class of the failure that ended the request of task t before anything
\* was sent: the local rate limit, the failure of the request's last API call,
\* or an unexpected exception; None when no such failure occurred.
FailureClass(t) ==
    LET r == tasks[t] IN
    IF Rejected(t) THEN "rate_limited"
    ELSE IF r.api # <<>> /\ r.api[Len(r.api)] # "ok" THEN r.api[Len(r.api)]
    ELSE r.err

\* A finished request that did not deliver an image.
Failed(t) == Done(t) /\ IsRequest(t) /\ ~tasks[t].sent

\* C12 as stated: every request that fails, failures of the chat transport
\* included, ends with the message of its failure class presented, and no
\* exception ever leaves a handler.
C12_EveryFailureTemplated ==
    \A t \in TaskIds :
        /\ ~tasks[t].raised
        /\ (Failed(t) /\ FailureClass(t) # None) =>
              tasks[t].shown = FailureClass(t)

\* C12, amended: a request that fails ends with the message of its failure
\* class presented when the chat transport delivers it.  When the transport
\* fails instead: in the catch-all clause the failure is swallowed (the status
\* message stays); on the rate-limit reply, the status message and the other
\* except clauses the exception leaves generate_image / transform_image, from
\* a text message to error_handler, under handle_photo to its Upload Error
\* reply, which leaves handle_photo only if that reply fails as well.
C12_FailureTemplatedOrEscapes ==
    \A t \in TaskIds :
        /\ Failed(t) =>
              \/ FailureClass(t) # None /\ tasks[t].shown = FailureClass(t)
              \/ /\ FailureClass(t) = "other"
                 /\ tasks[t].shown = "status"
                 /\ ~tasks[t].raised
              \/ /\ FailureClass(t) # "other"
                 /\ tasks[t].handler = "text"
                 /\ tasks[t].raised
                 /\ tasks[t].shown \in {None, "status", "system_error"}
              \/ /\ FailureClass(t) # "other"
                 /\ tasks[t].handler = "photo"
                 /\ \/ tasks[t].shown = "upload_error" /\ ~tasks[t].raised
                    \/ /\ tasks[t].raised
                       /\ tasks[t].shown \in {None, "status", "system_error"}
        /\ (tasks[t].raised /\ IsRequest(t)) =>
              /\ ~tasks[t].sent
              /\ tasks[t].pc \in {"error_handler", "done"}
              /\ FailureClass(t) # "other"

\* A transformation ended with the content-policy message, and nothing left
\* the handler.
C12_Witness ==
    \E t \in TaskIds :
        /\ Failed(t)
        /\ tasks[t].flow = "transform"
        /\ tasks[t].api = <<"policy">>
        /\ tasks[t].shown = "policy"
        /\ ~tasks[t].raised

\* The last API call of task t succeeded and save_generated_image returned no
\* path.
SaveFailed(t) ==
    /\ IsRequest(t)
    /\ tasks[t].api # <<>>
    /\ tasks[t].api[Len(tasks[t].api)] = "ok"
    /\ ~tasks[t].saved

\* The request of task t completed as a success.
Succeeded(t) ==
    /\ tasks[t].sent
    /\ tasks[t].shown = "success"
    /\ Counted(t)
    /\ UserData(t).last_prompt = tasks[t].prompt
    /\ tasks[t].flow = "transform" => UserData(t).uploaded_image_path = NoPath

\* C13 as stated: a request whose API call succeeded and whose image could
\* not be saved completes as a success: image sent, counter incremented,
\* last_prompt set, pending upload cleared, no failure message.
C13_SaveFailureStillSuccess ==
    \A t \in TaskIds : (Done(t) /\ SaveFailed(t)) => Succeeded(t)

\* C13, amended: after a successful API call whose image could not be saved
\* the handler goes on to send the image exactly as after a save that worked;
\* the request completes as a success when reply_photo delivers the image,
\* and only a failure of reply_photo makes it end as an unexpected error.
C13_SaveFailureNotFatal ==
    [][\A t \in TaskIds :
          /\ (/\ calls(tasks'[t]) = calls(tasks[t]) + 1
              /\ SaveFailed(t)')
             => tasks'[t].pc \in {"ge_send_photo", "tr_send_photo"}
          /\ (SaveFailed(t)' /\ tasks'[t].err # None)
             => \/ tasks[t].pc \in {"ge_send_photo", "tr_send_photo"}
                \/ tasks[t].err = tasks'[t].err
          /\ (Done(t)' /\ SaveFailed(t)') =>
                /\ tasks'[t].sent => Succeeded(t)'
                /\ ~tasks'[t].sent =>
                      /\ tasks'[t].err = "other"
                      /\ NotCounted(t)'
                      /\ tasks'[t].shown \in {"other", "status"}]_vars

\* A transformation completed as a success although its image was not saved.
C13_Witness ==
    \E t \in TaskIds :
        /\ Done(t)
        /\ SaveFailed(t)
        /\ tasks[t].flow = "transform"
        /\ Succeeded(t)

\* C14: once a transformation request has finished, whether it succeeded or
\* failed after its prepared copy was written, the prepared copy no longer
\* exists on disk.
C14_PreparedFileDeleted ==
    \A t \in TaskIds :
        (/\ Done(t)
         /\ tasks[t].flow = "transform"
         /\ tasks[t].prepared # NoFile)
        => tasks[t].prepared \notin disk

\* The image was given to prepare_image_for_api and the call is over.
Prepared == picture.output # <<>>

Output == picture.output[1]

\* The output for the input: both sides at most max_size, an opaque mode, and
\* the input's size when the input fits in max_size by max_size.
WithinLimits ==
    /\ Output.width <= max_size
    /\ Output.height <= max_size
    /\ Output.mode \notin TransparentModes
    /\ (picture.input.width <= max_size /\ picture.input.height <= max_size)
          => /\ Output.width = picture.input.width
             /\ Output.height = picture.input.height

\* C15 as stated: for an input of any colour mode, width and height,
\* prepare_image_for_api produces an output with both sides at most 1024, in
\* an opaque mode, and of the input's size when the input fits.
C15_AnyImagePrepared ==
    Prepared => ~Output.raised /\ WithinLimits

\* C15, amended: that holds for every input whose mode is flattened (RGBA, LA,
\* P) or is one PNG can hold; for an input of another mode (CMYK, PA) no
\* output is produced, img.save raises.
C15_PngImagePrepared ==
    Prepared =>
        /\ Output.raised <=>
              picture.input.mode \notin (PngModes \cup {"RGBA", "LA", "P"})
        /\ ~Output.raised => WithinLimits

\* The spec's example: a 2000 x 3000 RGBA image was prepared.
C15_Witness ==
    /\ Prepared
    /\ picture.input = [mode |-> "RGBA", width |-> 2000, height |-> 3000]
    /\ ~Output.raised
    /\ Output.mode = "RGB"
    /\ Output.height = max_size
    /\ Output.width = 683

\* The request of task t is in asyncio.sleep(2) between two attempts.
Sleeping(t) == tasks[t].pc \in {"ge_sleep", "tr_sleep"}

\* C16: a request takes one 2-second delay after each failed attempt that is
\* followed by another attempt and no other: none before its first call, and
\* when it has made k calls (1 <= k <= 3) and is not waiting for the next one
\* it has taken k - 1 delays; the call after a delay is made no earlier than
\* RETRY_DELAY seconds after the failed one.
C16_DelaysBetweenAttempts ==
    [][\A t \in TaskIds :
          /\ calls(tasks'[t]) = 0 => tasks'[t].delays = 0
          /\ calls(tasks'[t]) >= 1 =>
                /\ calls(tasks'[t]) <= 3
                /\ Sleeping(t)' =>
                      /\ tasks'[t].delays = calls(tasks'[t])
                      /\ calls(tasks'[t]) < 3
                      /\ tasks'[t].api[calls(tasks'[t])] = "conn"
                      /\ tasks'[t].wake >= clock' + RETRY_DELAY * TicksPerSec
                /\ ~Sleeping(t)' => tasks'[t].delays = calls(tasks'[t]) - 1
          /\ (Sleeping(t) /\ ~Sleeping(t)') =>
                /\ calls(tasks'[t]) = calls(tasks[t]) + 1
                /\ clock' >= tasks[t].wake]_vars

\* A transformation that failed to connect three times took two delays.
C16_Witness ==
    \E t \in TaskIds :
        /\ Done(t)
        /\ tasks[t].flow = "transform"
        /\ tasks[t].api = <<"conn", "conn", "conn">>
        /\ tasks[t].delays = 2
        /\ clock >= 2 * RETRY_DELAY * TicksPerSec

\* The outcomes the request of task t ended in: success, rejected by the rate
\* limiter, the failure class of its last API call, an unexpected exception,
\* or a failure to deliver the status message.
Outcomes(t) ==
    LET r == tasks[t] IN
    (IF r.sent THEN {"success"} ELSE {})
    \cup (IF Rejected(t) THEN {"rate_limited"} ELSE {})
    \cup (IF r.api # <<>> /\ r.api[Len(r.api)] # "ok"
          THEN {r.api[Len(r.api)]} ELSE {})
    \cup (IF r.err = "other" THEN {"other"} ELSE {})
    \cup (IF r.req # 0 /\ ~Rejected(t) /\ r.shown # "status" /\ r.api = <<>>
             /\ r.err = None
          THEN {"transport"} ELSE {})

\* C17: with every awaited call returning or raising and the tasks scheduled
\* fairly, every handler invocation finishes; no request makes more than 3
\* calls, and a finished request ended in exactly one outcome.
C17_HandlersFinish ==
    /\ \A t \in TaskIds : Active(t) ~> Done(t)
    /\ [](\A t \in TaskIds :
             /\ calls(tasks[t]) <= 3
             /\ (Done(t) /\ IsRequest(t)) => Cardinality(Outcomes(t)) = 1)

\* A request that used all three attempts has finished.
C17_Witness ==
    \E t \in TaskIds :
        /\ Done(t)
        /\ IsRequest(t)
        /\ calls(tasks[t]) = 3
        /\ tasks[t].delays = 2
        /\ Outcomes(t) = {"conn"}

\* C18: error_handler runs only for an exception that left a handler; it tries
\* one notification, finishes whether or not the notification is delivered,
\* and changes neither the session data nor the rate limiter's timestamps.
C18_ErrorHandlerSwallows ==
    [][\A t \in TaskIds :
          /\ tasks'[t].pc = "error_handler" => tasks'[t].raised
          /\ (tasks[t].pc = "error_handler" /\ tasks'[t] # tasks[t]) =>
                /\ tasks'[t].pc = "done"
                /\ tasks'[t].shown \in {"system_error", tasks[t].shown}
                /\ tasks'[t] = [tasks[t] EXCEPT !.pc = "done",
                                                !.shown = tasks'[t].shown]
                /\ user_data' = user_data
                /\ user_last_request' = user_last_request
                /\ requests' = requests
                /\ disk' = disk]_vars

\* The notification of error_handler failed as well and the handler invocation
\* is over; the user had a pending upload, which is still there.
C18_Witness ==
    \E t \in TaskIds :
        /\ Done(t)
        /\ tasks[t].raised
        /\ tasks[t].shown # "system_error"
        /\ tasks[t].before.uploaded_image_path # NoPath
        /\ UserData(t).uploaded_image_path = tasks[t].before.uploaded_image_path

\* What handle_photo stores for the photo of task t before it passes the
\* caption to transform_image.
Stored(t) ==
    [user_data EXCEPT ![tasks[t].user].uploaded_image_path = tasks[t].filepath,
                      ![tasks[t].user].images_uploaded = @ + 1]

\* C19: a request rejected by check_rate_limit makes no API call and prepares
\* no file; no step of it, the rejection included, changes the user's
\* timestamp, the counters, last_prompt or the pending upload (for a
\* captioned photo: beyond the upload that handle_photo has just stored); all
\* it does is send the wait message.
C19_RejectedChangesNothing ==
    [][\A t \in TaskIds :
          Rejected(t)' =>
             /\ calls(tasks'[t]) = 0
             /\ tasks'[t].prepared = NoFile
             /\ ~tasks'[t].sent
             /\ tasks'[t].shown \in {None, "rate_limited", "upload_error",
                                     "system_error"}
             /\ tasks'[t] # tasks[t] =>
                   /\ user_last_request' = user_last_request
                   /\ disk' = disk
                   /\ user_data' = IF tasks[t].pc = "ph_download"
                                   THEN Stored(t) ELSE user_data
             /\ (Done(t)' /\ tasks'[t].handler = "text") =>
                   UserData(t)' = tasks'[t].before]_vars

\* An instruction for a pending upload was rejected and answered with the wait
\* message; the timestamp is still that of the earlier accepted request.
C19_Witness ==
    \E t \in TaskIds :
        /\ Done(t)
        /\ Rejected(t)
        /\ tasks[t].flow = "transform"
        /\ tasks[t].shown = "rate_limited"
        /\ tasks[t].wait_time > 0
        /\ UserData(t).uploaded_image_path = tasks[t].image
        /\ user_last_request[tasks[t].user] < requests[tasks[t].req].time

\* The request of task t was accepted by check_rate_limit and has failed.
AcceptedAndFailed(t) ==
    /\ Failed(t)
    /\ tasks[t].req # 0
    /\ requests[tasks[t].req].can_proceed

\* C20: after a request that was accepted and then failed the user's timestamp
\* is the time of that request; a text the user sends less than
\* REQUEST_COOLDOWN seconds after it is rejected, leaves the timestamp alone
\* and makes no API call.
C20_FailureConsumesCooldown ==
    [][\A t \in TaskIds :
          /\ AcceptedAndFailed(t)' =>
                user_last_request'[tasks'[t].user] = requests'[tasks'[t].req].time
          /\ (/\ AcceptedAndFailed(t)
              /\ tasks'[t].user = tasks[t].user
              /\ tasks'[t].req = Len(requests) + 1
              /\ Len(requests') = Len(requests) + 1
              /\ requests'[tasks'[t].req].time - requests[tasks[t].req].time
                    < Cooldown)
             => /\ Rejected(t)'
                /\ user_last_request' = user_last_request
          /\ Rejected(t)' => calls(tasks'[t]) = 0]_vars

\* A user whose only accepted request failed tried again within the cooldown
\* and was rejected.
C20_Witness ==
    \E t \in TaskIds :
        /\ Done(t)
        /\ Rejected(t)
        /\ tasks[t].req = 2
        /\ requests[1].user = tasks[t].user
        /\ requests[1].can_proceed
        /\ tasks[t].before.images_generated = 0
        /\ tasks[t].before.images_transformed = 0
        /\ tasks[t].before.last_prompt = None
        /\ calls(tasks[t]) = 0
        /\ user_last_request[tasks[t].user] = requests[1].time

\* The session data d without a pending upload.
Cleared(d) == [d EXCEPT !.uploaded_image_path = NoPath]

\* C21: /clear removes the user's pending upload reference and nothing else:
\* the counters, last_prompt, the timestamps and the other users' data stay,
\* and without a pending upload nothing changes at all (so a second /clear
\* leaves what the first one left); a text message of a user whose upload was
\* cleared, and who has uploaded nothing since, is a plain generation.
C21_ClearRemovesOnlyUpload ==
    [][\A t \in TaskIds :
          /\ (tasks'[t].handler = "clear" /\ tasks'[t] # tasks[t]) =>
                /\ user_data' = [user_data EXCEPT
                                    ![tasks'[t].user] = Cleared(@)]
                /\ Cleared(user_data'[tasks'[t].user])
                      = user_data'[tasks'[t].user]
                /\ user_last_request' = user_last_request
                /\ requests' = requests
                /\ disk' = disk
          /\ (Done(t)' /\ tasks'[t].handler = "clear") =>
                /\ UserData(t)' = Cleared(tasks'[t].before)
                /\ tasks'[t].before.uploaded_image_path = NoPath
                      => UserData(t)' = tasks'[t].before
                /\ tasks'[t].shown \in {"cleared", "no_image_to_clear",
                                        "system_error", None}
          /\ (/\ Done(t) /\ tasks[t].handler = "clear"
              /\ tasks'[t].handler = "text"
              /\ tasks'[t].user = tasks[t].user)
             => /\ tasks'[t].flow = "generate"
                /\ tasks'[t].image = NoPath
          /\ (/\ tasks'[t].handler = "text"
              /\ tasks'[t].before.uploaded_image_path = NoPath)
             => tasks'[t].flow = "generate"]_vars

\* After a photo and /clear the user's text was generated from the prompt
\* alone.
C21_Witness ==
    \E t \in TaskIds :
        /\ Done(t)
        /\ tasks[t].handler = "text"
        /\ tasks[t].flow = "generate"
        /\ tasks[t].before.images_uploaded = 1
        /\ tasks[t].before.images_transformed = 0
        /\ tasks[t].before.uploaded_image_path = NoPath
        /\ tasks[t].sent
        /\ UserData(t).images_generated = 1

\* The step ends the wait of task t for status_message.delete() after its
\* transformed image was delivered.
Completing(t) ==
    /\ tasks[t].pc = "tr_delete_status"
    /\ tasks'[t].pc # "tr_delete_status"

====
